---- MODULE Spec2Model ----
\* pprof-repo (src/pprof-repo/main.go): an HTTP server that stores uploaded
\* pprof snapshots in a directory, mounts the pprof web UI of each under
\* /profiles/<id> on a shared ServeMux and lists them on "/".
\*
\* Strings are sequences of one-character (or one-word) tokens, so that the
\* regular expressions, filepath.Join/Base/Ext and the route patterns are
\* computed on their characters.
EXTENDS Integers, Sequences, FiniteSets, TLC

\* --------------------------------------------------------------- bounds

\* File modification times of the catalog directory run from 0 to MaxTime.
MaxTime == 1
\* No more than MaxProfiles entries are ever appended to Handler.Profiles.
MaxProfiles == 4
\* The clock of the file watcher runs from 1 to MaxNow.
MaxNow == 5
\* The -wait flag of the file watcher is one of 0..MaxWait clock units.
MaxWait == 2

\* ------------------------------------------------------------ constants

StatusOK == 200
StatusCreated == 201
StatusMovedPermanently == 301
StatusBadRequest == 400
StatusUnauthorized == 401
StatusNotFound == 404
StatusInternalServerError == 500

\* ----------------------------------------------------------- processes

\* "main" is the goroutine of run(); net/http serves every request on a
\* goroutine of its own, here w1 and w2.
Workers == {"w1", "w2"}
Procs == {"main"} \cup Workers

\* -------------------------------------------------------------- strings

Letters == {"a", "b", "e"}
Digits == {"1"}

\* [a-zA-Z0-9_\-]
IsNameChar(c) == c \in Letters \cup Digits \cup {"_", "-"}

\* The expression without its anchors: [a-zA-Z0-9_\-]+ matches anywhere.
profileNameRegexpUnanchored(s) == \E i \in 1..Len(s) : IsNameChar(s[i])

\* profileNameRegexp: ^[a-zA-Z0-9_\-]+$ (in Go, $ is the end of the text).
profileNameRegexp(s) == Len(s) >= 1 /\ \A i \in 1..Len(s) : IsNameChar(s[i])

HasPrefix(s, prefix) ==
    /\ Len(s) >= Len(prefix)
    /\ SubSeq(s, 1, Len(prefix)) = prefix

HasSuffix(s, suffix) ==
    /\ Len(s) >= Len(suffix)
    /\ SubSeq(s, Len(s) - Len(suffix) + 1, Len(s)) = suffix

TrimSuffix(s, suffix) ==
    IF HasSuffix(s, suffix) THEN SubSeq(s, 1, Len(s) - Len(suffix)) ELSE s

\* The greatest index of token c in s, 0 when there is none.
LastIndex(s, c) ==
    LET I == {i \in 1..Len(s) : s[i] = c}
    IN  IF I = {} THEN 0 ELSE CHOOSE i \in I : \A j \in I : j <= i

\* filepath.Base for a path that does not end in a separator.
Base(path) == SubSeq(path, LastIndex(path, "/") + 1, Len(path))

\* filepath.Ext: the suffix beginning at the final dot of the last element.
Ext(path) ==
    LET b == Base(path)
        d == LastIndex(b, ".")
    IN  IF d = 0 THEN <<>> ELSE SubSeq(b, d, Len(b))

ProfilesDir == <<"profiles">>

\* filepath.Join(h.ProfilesDir, fmt.Sprintf("%s.pprof", profileName))
ProfilePath(profileName) == ProfilesDir \o <<"/">> \o profileName \o <<".", "pprof">>

\* profileID := strings.TrimSuffix(filepath.Base(path), filepath.Ext(path))
ProfileID(path) == TrimSuffix(Base(path), Ext(path))

\* The handler paths the pprof web UI hands to HTTPServer (ha.Handlers).
HandlerPaths == {<<"/">>, <<"/", "top">>}

\* A pattern without the id: fmt.Sprintf("/profiles%s", handlerPath).
PatternNoId(profileID, handlerPath) == <<"/", "profiles">> \o handlerPath

\* fmt.Sprintf("/profiles/%s%s", profileID, handlerPath)
Pattern(profileID, handlerPath) == <<"/", "profiles", "/">> \o profileID \o handlerPath

\* ---------------------------------------------------------------- inputs

\* The name form fields a client may send: "", "a", "b-1", "a/b", "../e", "a b".
UploadNames ==
    { <<>>, <<"a">>, <<"b", "-", "1">>, <<"a", "/", "b">>,
      <<".", ".", "/", "e">>, <<"a", " ", "b">> }

\* The files the catalog directory may hold when the program starts.
StartupNames == { <<"a">>, <<"b", "-", "1">>, <<"e", "_", "1">> }

Paths == {ProfilePath(n) : n \in UploadNames \cup StartupNames}

\* File contents: "g1" is a well-formed profile, "bad" is not one, and "" is
\* the empty file that an O_TRUNC open leaves.
Contents == {"g1", "bad", ""}

\* profile.Parse accepts exactly the well-formed profiles.
Parses(content) == content = "g1"

NoFile == [exists |-> FALSE, content |-> "", mtime |-> 0]
File(content, mtime) == [exists |-> TRUE, content |-> content, mtime |-> mtime]

\* The x-upload-token header is the list of its values: <<>> when missing.
\* Header.Get returns the first value, "" when there is none.
HeaderGet(values) == IF values = <<>> THEN "" ELSE values[1]

\* The pprof form field is <<>> when the form has none, else <<content>>.
NoReq == [method |-> "", path |-> <<>>, token |-> <<>>, name |-> <<>>, pprof |-> <<>>]

Req(method, path) == [NoReq EXCEPT !.method = method, !.path = path]

UploadReq(token, name, pprof) ==
    [method |-> "POST", path |-> <<"/", "upload">>,
     token |-> token, name |-> name, pprof |-> pprof]

\* The requests that are answered in one step of their handler (the ones
\* without an upload's file and load steps, whatever the token is).
OneStepRequests ==
    { Req("GET", <<"/">>), Req("POST", <<"/">>), Req("GET", <<"/", "upload">>),
      Req("GET", <<"/", "x">>),
      Req("GET", <<"/", "profiles", "/", "a">>),
      Req("GET", <<"/", "profiles", "/", "a", "/", "top">>),
      Req("GET", <<"/", "profiles", "/", "a", "/", "e">>),
      Req("GET", <<"/", "profiles", "/", "e", "/">>) }
    \cup { UploadReq(<<"bad">>, n, <<"g1">>) : n \in {<<"a">>, <<"a", "/", "b">>} }
    \cup { UploadReq(<<"pprof">>, n, <<"g1">>) : n \in UploadNames \ StartupNames }

\* Uploads whose token is Handler.UploadToken when the flag has its default
\* or, for a missing header, when the flag is empty.
Uploads ==
    { UploadReq(<<"pprof">>, <<"a">>, f) : f \in {<<>>, <<"g1">>, <<"bad">>} }
    \cup { UploadReq(<<"pprof">>, <<"b", "-", "1">>, f) : f \in {<<"g1">>, <<"bad">>} }
    \cup { UploadReq(<<>>, n, <<"g1">>) : n \in {<<"a">>, <<"a", "/", "b">>} }

\* Goroutine w1 serves every kind of request; w2, which runs beside it,
\* serves uploads of a well-formed profile under either id (requests that
\* are answered in one step interleave with nothing, so w1 serving them is
\* enough).
Requests(w) ==
    IF w = "w1" THEN OneStepRequests \cup Uploads
    ELSE { UploadReq(<<"pprof">>, n, <<"g1">>) : n \in {<<"a">>, <<"b", "-", "1">>} }

\* ----------------------------------------------------------------- state

VARIABLES
    UploadToken,   \* Handler.UploadToken, the -upload-token flag
    disk,          \* the files of the catalog directory, by path
    Profiles,      \* Handler.Profiles
    ProfileMux,    \* Handler.ProfileMux: the registered patterns
    profilePaths,  \* run: the paths the range loop has still to visit
    wk,            \* every goroutine's position and locals
    \* the file watcher (src/unnamed/part_000), a program of its own
    waitDuration,    \* run: the parsed -wait flag
    lastRunModTime,  \* run: lastRunModTime
    stat,            \* run: the result of the last os.Stat(*file)
    wpc,             \* run: the position in the polling loop
    watched,         \* the watched file: whether it exists, and its mtime
    wnow,            \* the wall clock, time.Now()
    runs,            \* history: the executions of the command, in order
    firstStat        \* history: the first os.Stat that succeeded

handler == <<UploadToken, disk, Profiles, ProfileMux, profilePaths, wk>>

watcher == <<waitDuration, lastRunModTime, stat, wpc, watched, wnow, runs, firstStat>>

vars == <<handler, watcher>>

Idle ==
    [pc |-> "idle", req |-> NoReq, path |-> <<>>, modTime |-> 0, pprof |-> "",
     todo |-> {}, old |-> <<>>, status |-> 0, body |-> <<>>]

\* The request is over and its response is (status, body).
Responded(status, body) == [Idle EXCEPT !.pc = "done", !.status = status, !.body = body]

\* A panic that leaves the handler: net/http recovers it on the connection's
\* goroutine and closes the connection without a response; in run() it ends
\* the process.
Panicked(p) == [Idle EXCEPT !.pc = IF p = "main" THEN "crashed" ELSE "aborted"]

Finished == {"idle", "done", "aborted"}

\* ProfileInfo
ProfileInfo(name, modTime) == [Name |-> name, ModTime |-> modTime]

\* time.Time{}, the zero time: no file has it as its modification time.
Zero == 0

\* Time.IsZero
IsZero(t) == t = Zero

\* The file watcher before its first os.Stat: lastRunModTime is the zero
\* time, and the watched file is `file` at time `now`.
StartWatch(wait, file, now) ==
    /\ waitDuration = wait
    /\ lastRunModTime = Zero
    /\ stat = [err |-> TRUE, ModTime |-> Zero]
    /\ wpc = "stat"
    /\ watched = file
    /\ wnow = now
    /\ runs = <<>>
    /\ firstStat = [ModTime |-> Zero, failedBefore |-> FALSE]

\* The handler before run() is called, over a catalog directory `files`. The
\* file watcher is another program: it takes no step here.
Start(files) ==
    /\ StartWatch(0, [exists |-> FALSE, mtime |-> Zero], 1)
    /\ UploadToken \in {"pprof", ""}
    /\ disk = files
    /\ Profiles = <<>>
    /\ ProfileMux = {}
    /\ profilePaths = <<>>
    /\ wk = [p \in Procs |-> IF p = "main" THEN [Idle EXCEPT !.pc = "glob"] ELSE Idle]

\* The catalog directory holds any of a.pprof and b-1.pprof, well-formed or not.
Init ==
    \E files \in [Paths -> {NoFile, File("g1", 0), File("bad", 0)}] :
        /\ \A f \in Paths : files[f].exists => ProfileID(f) \in {<<"a">>, <<"b", "-", "1">>}
        /\ Start(files)

\* The catalog directory holds any of a.pprof, b-1.pprof and e_1.pprof, of
\* any age.
InitSeq ==
    \E files \in [Paths -> {NoFile} \cup {File(c, t) : c \in {"g1", "bad"}, t \in 0..MaxTime}] :
        /\ \A f \in Paths : files[f].exists => ProfileID(f) \in StartupNames
        /\ Start(files)

\* The times a write may stamp on a file: the clock never runs backwards, so
\* no earlier than any modification time in the directory.
Clock == {t \in 0..MaxTime : \A f \in Paths : disk[f].exists => disk[f].mtime <= t}

\* ------------------------------------------------------------------ run

\* filepath.Glob lists the directory in lexical order of the file names.
GlobOrder ==
    << ProfilePath(<<"a">>), ProfilePath(<<"b", "-", "1">>), ProfilePath(<<"e", "_", "1">>) >>

FileExists(f) == f \in Paths /\ disk[f].exists

\* run: MkdirAll, the Handler, and filepath.Glob(profiles/*.pprof).
run ==
    /\ wk["main"].pc = "glob"
    /\ profilePaths' = SelectSeq(GlobOrder, FileExists)
    /\ wk' = [wk EXCEPT !["main"].pc = "loop"]
    /\ UNCHANGED <<UploadToken, disk, Profiles, ProfileMux, watcher>>

\* run: one turn of `for _, path := range profilePaths`, which calls
\* handler.LoadProfile(path).
rangeProfilePaths ==
    /\ wk["main"].pc = "loop"
    /\ profilePaths # <<>>
    /\ profilePaths' = Tail(profilePaths)
    /\ wk' = [wk EXCEPT !["main"] = [Idle EXCEPT !.pc = "stat", !.path = Head(profilePaths)]]
    /\ UNCHANGED <<UploadToken, disk, Profiles, ProfileMux, watcher>>

\* run: the loop is over, http.ListenAndServe(*addr, handler).
ListenAndServe ==
    /\ wk["main"].pc = "loop"
    /\ profilePaths = <<>>
    /\ wk' = [wk EXCEPT !["main"].pc = "listen"]
    /\ UNCHANGED <<UploadToken, disk, Profiles, ProfileMux, profilePaths, watcher>>

Serving == wk["main"].pc = "listen"

\* The reconciliation of run (filepath.Glob and the range loop over
\* LoadProfile) started once more on the same Handler when the loop has ended.
reconcileAgain ==
    /\ wk["main"].pc = "loop"
    /\ profilePaths = <<>>
    /\ profilePaths' = SelectSeq(GlobOrder, FileExists)
    /\ wk' = [wk EXCEPT !["main"].pc = "loop"]
    /\ UNCHANGED <<UploadToken, disk, Profiles, ProfileMux, watcher>>

\* ---------------------------------------------------------- LoadProfile

\* A run that returns the error of LoadProfile instead of logging it.
LoadReturnAborts(p, failed) ==
    IF p = "main" THEN [Idle EXCEPT !.pc = IF failed THEN "crashed" ELSE "loop"]
    ELSE IF failed THEN Responded(StatusInternalServerError, <<>>)
    ELSE [wk[p] EXCEPT !.pc = "created", !.old = <<>>, !.todo = {}, !.pprof = "", !.modTime = 0]

\* What LoadProfile's caller does with the returned error: run logs it and
\* goes on with the next path; upload answers 500, or goes on to answer 201.
LoadReturn(p, failed) ==
    IF p = "main" THEN [Idle EXCEPT !.pc = "loop"]
    ELSE IF failed THEN Responded(StatusInternalServerError, <<>>)
    ELSE [wk[p] EXCEPT !.pc = "created", !.old = <<>>, !.todo = {}, !.pprof = "", !.modTime = 0]

\* os.Stat(path)
LoadStat(p) ==
    /\ wk[p].pc = "stat"
    /\ wk' = [wk EXCEPT ![p] =
                IF ~disk[wk[p].path].exists THEN LoadReturn(p, TRUE)
                ELSE [wk[p] EXCEPT !.pc = "parse", !.modTime = disk[wk[p].path].mtime]]
    /\ UNCHANGED <<UploadToken, disk, Profiles, ProfileMux, profilePaths, watcher>>

\* A LoadProfile that appends to h.Profiles without calling driver.PProf.
LoadParseSkipsMount(p) ==
    /\ wk[p].pc = "parse"
    /\ LET file == disk[wk[p].path]
       IN  wk' = [wk EXCEPT ![p] =
                IF ~file.exists \/ ~Parses(file.content)
                THEN IF p = "main" THEN [Idle EXCEPT !.pc = "loop"]
                     ELSE Responded(StatusInternalServerError, <<>>)
                ELSE [wk[p] EXCEPT !.pc = "append", !.pprof = file.content]]
    /\ UNCHANGED <<UploadToken, disk, Profiles, ProfileMux, profilePaths, watcher>>

\* A LoadProfile that goes on when profile.Parse has returned an error.
LoadParseIgnoresErr(p) ==
    /\ wk[p].pc = "parse"
    /\ wk' = [wk EXCEPT ![p] =
            [wk[p] EXCEPT !.pc = "mount", !.pprof = disk[wk[p].path].content,
                          !.todo = HandlerPaths]]
    /\ UNCHANGED <<UploadToken, disk, Profiles, ProfileMux, profilePaths, watcher>>

\* os.Open(path) and profile.Parse(file); the driver then builds its handlers.
LoadParse(p) ==
    /\ wk[p].pc = "parse"
    /\ LET file == disk[wk[p].path]
       IN  wk' = [wk EXCEPT ![p] =
                IF ~file.exists \/ ~Parses(file.content) THEN LoadReturn(p, TRUE)
                ELSE [wk[p] EXCEPT !.pc = "mount", !.pprof = file.content,
                                   !.todo = HandlerPaths]]
    /\ UNCHANGED <<UploadToken, disk, Profiles, ProfileMux, profilePaths, watcher>>

Registered(pattern) == \E e \in ProfileMux : e.pattern = pattern

\* A Handle that replaces a registered pattern instead of panicking.
HandleReplaces(pattern) == FALSE

\* ServeMux.Handle(pattern, handler) panics when the pattern is registered.
HandlePanics(pattern) == Registered(pattern)

\* The HTTPServer hook, one h.ProfileMux.Handle per step, in the order of
\* the map iteration (any order).
HTTPServer(p) ==
    /\ wk[p].pc = "mount"
    /\ \E handlerPath \in wk[p].todo :
         LET profileID == ProfileID(wk[p].path)
             pattern == Pattern(profileID, handlerPath)
         IN  IF HandlePanics(pattern)
             THEN /\ wk' = [wk EXCEPT ![p] = Panicked(p)]
                  /\ UNCHANGED ProfileMux
             ELSE /\ ProfileMux' = ProfileMux \cup
                        {[pattern |-> pattern, id |-> profileID, pprof |-> wk[p].pprof]}
                  /\ wk' = [wk EXCEPT ![p] =
                        [wk[p] EXCEPT !.todo = wk[p].todo \ {handlerPath},
                                      !.pc = IF wk[p].todo = {handlerPath}
                                             THEN "append" ELSE "mount"]]
    /\ UNCHANGED <<UploadToken, disk, Profiles, profilePaths, watcher>>

\* Handler has no lock, so the goroutines of concurrent requests race on
\* h.Profiles. The race is taken at the grain of the slice value: the append
\* is a read of h.Profiles and a later write of it, the sort is one step on
\* the value it finds, and index reads the value in one step. The outcomes
\* this grain produces (a lost append, a listing between append and sort) are
\* outcomes of the program; the finer ones (a swap of the sort seen half
\* done) are not drawn.

\* h.Profiles = append(h.Profiles, ...): the read of h.Profiles.
AppendRead(p) ==
    /\ wk[p].pc = "append"
    /\ wk' = [wk EXCEPT ![p] = [wk[p] EXCEPT !.pc = "store", !.old = Profiles]]
    /\ UNCHANGED <<UploadToken, disk, Profiles, ProfileMux, profilePaths, watcher>>

\* h.Profiles = append(h.Profiles, ...): the write of h.Profiles.
AppendStore(p) ==
    /\ wk[p].pc = "store"
    /\ Len(wk[p].old) < MaxProfiles
    /\ Profiles' = Append(wk[p].old, ProfileInfo(ProfileID(wk[p].path), wk[p].modTime))
    /\ wk' = [wk EXCEPT ![p] = [wk[p] EXCEPT !.pc = "sort", !.old = <<>>]]
    /\ UNCHANGED <<UploadToken, disk, ProfileMux, profilePaths, watcher>>

\* A less function that calls Before instead of After.
LessBefore(x, y) == x.ModTime < y.ModTime

\* The less function of sort.Slice: h.Profiles[i].ModTime.After(h.Profiles[j].ModTime)
Less(x, y) == x.ModTime > y.ModTime

\* Insert x into the sorted s as an insertion sort does: x moves towards the
\* front while it is Less than the element before it.
RECURSIVE Insert(_, _)
Insert(s, x) ==
    IF s # <<>> /\ Less(x, s[Len(s)])
    THEN Append(Insert(SubSeq(s, 1, Len(s) - 1), x), s[Len(s)])
    ELSE Append(s, x)

\* sort.Slice on a short slice is an insertion sort.
RECURSIVE SortSlice(_)
SortSlice(s) ==
    IF s = <<>> THEN <<>>
    ELSE Insert(SortSlice(SubSeq(s, 1, Len(s) - 1)), s[Len(s)])

\* sort.Slice(h.Profiles, ...) and return nil.
LoadSort(p) ==
    /\ wk[p].pc = "sort"
    /\ Profiles' = SortSlice(Profiles)
    /\ wk' = [wk EXCEPT ![p] = LoadReturn(p, FALSE)]
    /\ UNCHANGED <<UploadToken, disk, ProfileMux, profilePaths, watcher>>

\* ------------------------------------------------------------ ServeHTTP

\* The server hands a request to Handler.ServeHTTP on a free goroutine.
Accept(w) ==
    /\ Serving
    /\ wk[w].pc \in Finished
    /\ \E r \in Requests(w) : wk' = [wk EXCEPT ![w] = [Idle EXCEPT !.pc = "serve", !.req = r]]
    /\ UNCHANGED <<UploadToken, disk, Profiles, ProfileMux, profilePaths, watcher>>

IsIndex(r) == r.path = <<"/">> /\ r.method = "GET"
IsUpload(r) == r.path = <<"/", "upload">> /\ r.method = "POST"
\* The default case of the switch on r.URL.Path.
IsDefault(r) == r.path # <<"/">> /\ r.path # <<"/", "upload">>
IsProfiles(r) == IsDefault(r) /\ HasPrefix(r.path, <<"/", "profiles", "/">>)

\* index: the listing of h.Profiles, one link per entry, in slice order.
index(w) ==
    /\ wk[w].pc = "serve"
    /\ IsIndex(wk[w].req)
    /\ wk' = [wk EXCEPT ![w] = Responded(StatusOK,
                [i \in 1..Len(Profiles) |->
                    [href |-> <<"/", "profiles", "/">> \o Profiles[i].Name,
                     Name |-> Profiles[i].Name, ModTime |-> Profiles[i].ModTime]])]
    /\ UNCHANGED <<UploadToken, disk, Profiles, ProfileMux, profilePaths, watcher>>

\* "/" or "/upload" with a method the inner switch has no case for: the
\* handler returns having written nothing, and net/http answers 200.
noCase(w) ==
    /\ wk[w].pc = "serve"
    /\ ~IsDefault(wk[w].req) /\ ~IsIndex(wk[w].req) /\ ~IsUpload(wk[w].req)
    /\ wk' = [wk EXCEPT ![w] = Responded(StatusOK, <<>>)]
    /\ UNCHANGED <<UploadToken, disk, Profiles, ProfileMux, profilePaths, watcher>>

\* The default case for a path outside /profiles/.
notFound(w) ==
    /\ wk[w].pc = "serve"
    /\ IsDefault(wk[w].req) /\ ~IsProfiles(wk[w].req)
    /\ wk' = [wk EXCEPT ![w] = Responded(StatusNotFound, <<>>)]
    /\ UNCHANGED <<UploadToken, disk, Profiles, ProfileMux, profilePaths, watcher>>

\* ServeMux: a pattern matches its own path and, when it ends in "/", every
\* path below it; the longest matching pattern wins.
MuxMatches(path) ==
    {e \in ProfileMux :
        \/ e.pattern = path
        \/ e.pattern[Len(e.pattern)] = "/" /\ HasPrefix(path, e.pattern)}

MuxHandler(path) ==
    CHOOSE e \in MuxMatches(path) : \A f \in MuxMatches(path) : Len(f.pattern) <= Len(e.pattern)

\* profiles: h.ProfileMux.ServeHTTP: the matching handler serves its
\* profile; a path whose pattern is registered with a trailing slash only is
\* redirected; any other path is not found.
profiles(w) ==
    /\ wk[w].pc = "serve"
    /\ IsProfiles(wk[w].req)
    /\ LET path == wk[w].req.path
       IN  wk' = [wk EXCEPT ![w] =
                IF MuxMatches(path) # {}
                THEN Responded(StatusOK, <<[id |-> MuxHandler(path).id,
                                            pprof |-> MuxHandler(path).pprof]>>)
                ELSE IF Registered(path \o <<"/">>)
                THEN Responded(StatusMovedPermanently, <<>>)
                ELSE Responded(StatusNotFound, <<>>)]
    /\ UNCHANGED <<UploadToken, disk, Profiles, ProfileMux, profilePaths, watcher>>

\* --------------------------------------------------------------- upload

\* An upload without the comparison of the token.
UnauthorizedNever(r) == FALSE

\* r.Header.Get("x-upload-token") != h.UploadToken
Unauthorized(r) == HeaderGet(r.token) # UploadToken

\* upload, up to os.OpenFile(profilePath, O_CREATE|O_WRONLY|O_TRUNC): the
\* token, the name, then the file is created or emptied (or the open fails).
upload(w) ==
    /\ wk[w].pc = "serve"
    /\ IsUpload(wk[w].req)
    /\ LET r == wk[w].req
           profilePath == ProfilePath(r.name)
       IN  IF Unauthorized(r)
           THEN /\ wk' = [wk EXCEPT ![w] = Responded(StatusUnauthorized, <<>>)]
                /\ UNCHANGED disk
           ELSE IF ~profileNameRegexp(r.name)
           THEN /\ wk' = [wk EXCEPT ![w] = Responded(StatusBadRequest, <<>>)]
                /\ UNCHANGED disk
           ELSE \/ /\ \E t \in Clock : disk' = [disk EXCEPT ![profilePath] = File("", t)]
                   /\ wk' = [wk EXCEPT ![w] = [wk[w] EXCEPT !.pc = "copy", !.path = profilePath]]
                \/ /\ wk' = [wk EXCEPT ![w] = Responded(StatusInternalServerError, <<>>)]
                   /\ UNCHANGED disk
    /\ UNCHANGED <<UploadToken, Profiles, ProfileMux, profilePaths, watcher>>

\* upload: r.FormFile("pprof") and io.Copy(f, file), then the call of
\* h.LoadProfile(profilePath). A copy that fails has written a prefix of the
\* payload, which is no profile: the empty one here.
uploadCopy(w) ==
    /\ wk[w].pc = "copy"
    /\ LET r == wk[w].req
       IN  IF r.pprof = <<>>
           THEN /\ wk' = [wk EXCEPT ![w] = Responded(StatusInternalServerError, <<>>)]
                /\ UNCHANGED disk
           ELSE \/ /\ \E t \in Clock : disk' = [disk EXCEPT ![wk[w].path] = File(r.pprof[1], t)]
                   /\ wk' = [wk EXCEPT ![w] = [wk[w] EXCEPT !.pc = "stat"]]
                \/ /\ \E t \in Clock : disk' = [disk EXCEPT ![wk[w].path] = File("", t)]
                   /\ wk' = [wk EXCEPT ![w] = Responded(StatusInternalServerError, <<>>)]
    /\ UNCHANGED <<UploadToken, Profiles, ProfileMux, profilePaths, watcher>>

\* upload: LoadProfile returned nil: 201 and the location of the profile.
uploadCreated(w) ==
    /\ wk[w].pc = "created"
    /\ wk' = [wk EXCEPT ![w] = Responded(StatusCreated,
                <<[location |-> <<"/", "profiles", "/">> \o wk[w].req.name]>>)]
    /\ UNCHANGED <<UploadToken, disk, Profiles, ProfileMux, profilePaths, watcher>>

\* ------------------------------------------------------- specifications

LoadProfile(p) ==
    \/ LoadStat(p)
    \/ LoadParse(p)
    \/ HTTPServer(p)
    \/ AppendRead(p)
    \/ AppendStore(p)
    \/ LoadSort(p)

ServeHTTP(w) ==
    \/ index(w)
    \/ noCase(w)
    \/ notFound(w)
    \/ profiles(w)
    \/ upload(w)
    \/ uploadCopy(w)
    \/ uploadCreated(w)

Step ==
    \/ run
    \/ rangeProfilePaths
    \/ ListenAndServe
    \/ \E p \in Procs : LoadProfile(p)
    \/ \E w \in Workers : ServeHTTP(w)

\* Requests are served concurrently, each on its own goroutine.
Next ==
    \/ Step
    \/ \E w \in Workers : Accept(w)

Spec == Init /\ [][Next]_vars

\* One request at a time: a request is accepted when no other is in progress.
AcceptSeq(w) ==
    /\ \A v \in Workers : wk[v].pc \in Finished
    /\ Accept(w)

NextSeq ==
    \/ Step
    \/ \E w \in Workers : AcceptSeq(w)

SpecSeq == InitSeq /\ [][NextSeq]_vars

\* The reconciliation on its own, run again and again over a directory that
\* nothing else writes: no request is served.
NextTwice ==
    \/ run
    \/ rangeProfilePaths
    \/ reconcileAgain
    \/ LoadProfile("main")

SpecTwice == InitSeq /\ [][NextTwice]_vars

\* -------------------------------------------------- the file watcher
\* src/unnamed/part_000: every second, os.Stat the watched file and execute
\* the command when the file has been left alone for waitDuration.

\* An os.Stat that records no baseline while lastRunModTime is the zero time.
osStatNoBaseline ==
    /\ wpc = "stat"
    /\ IF watched.exists
       THEN /\ stat' = [err |-> FALSE, ModTime |-> watched.mtime]
            /\ wpc' = "diff"
            /\ firstStat' = IF IsZero(firstStat.ModTime)
                             THEN [firstStat EXCEPT !.ModTime = watched.mtime]
                             ELSE firstStat
       ELSE /\ stat' = [err |-> TRUE, ModTime |-> Zero]
            /\ wpc' = "wait"
            /\ firstStat' = IF IsZero(firstStat.ModTime)
                             THEN [firstStat EXCEPT !.failedBefore = TRUE]
                             ELSE firstStat
    /\ UNCHANGED <<waitDuration, lastRunModTime, watched, wnow, runs, handler>>

\* run: os.Stat(*file). When it succeeds and lastRunModTime is the zero time,
\* lastRunModTime becomes the file's modification time; when it fails, the
\* error is logged and the loop waits for the next tick.
osStat ==
    /\ wpc = "stat"
    /\ IF watched.exists
       THEN /\ stat' = [err |-> FALSE, ModTime |-> watched.mtime]
            /\ lastRunModTime' = IF IsZero(lastRunModTime) THEN watched.mtime
                                  ELSE lastRunModTime
            /\ wpc' = "diff"
            /\ firstStat' = IF IsZero(firstStat.ModTime)
                             THEN [firstStat EXCEPT !.ModTime = watched.mtime]
                             ELSE firstStat
       ELSE /\ stat' = [err |-> TRUE, ModTime |-> Zero]
            /\ wpc' = "wait"
            /\ firstStat' = IF IsZero(firstStat.ModTime)
                             THEN [firstStat EXCEPT !.failedBefore = TRUE]
                             ELSE firstStat
            /\ UNCHANGED lastRunModTime
    /\ UNCHANGED <<waitDuration, watched, wnow, runs, handler>>

\* A decision that does not look at the time since the modification.
diffNoWait ==
    /\ wpc = "diff"
    /\ IF lastRunModTime # stat.ModTime
       THEN /\ runs' = Append(runs, [ModTime |-> stat.ModTime, at |-> wnow])
            /\ wpc' = "cmd"
       ELSE /\ wpc' = "wait"
            /\ UNCHANGED runs
    /\ UNCHANGED <<waitDuration, lastRunModTime, stat, watched, wnow, firstStat, handler>>

\* A decision that wants more than waitDuration since the modification.
diffStrict ==
    /\ wpc = "diff"
    /\ IF wnow - stat.ModTime > waitDuration /\ lastRunModTime # stat.ModTime
       THEN /\ runs' = Append(runs, [ModTime |-> stat.ModTime, at |-> wnow])
            /\ wpc' = "cmd"
       ELSE /\ wpc' = "wait"
            /\ UNCHANGED runs
    /\ UNCHANGED <<waitDuration, lastRunModTime, stat, watched, wnow, firstStat, handler>>

\* run: diff := time.Now().Sub(stat.ModTime()); the command is started when
\* diff >= waitDuration and lastRunModTime != stat.ModTime().
diff ==
    /\ wpc = "diff"
    /\ IF wnow - stat.ModTime >= waitDuration /\ lastRunModTime # stat.ModTime
       THEN /\ runs' = Append(runs, [ModTime |-> stat.ModTime, at |-> wnow])
            /\ wpc' = "cmd"
       ELSE /\ wpc' = "wait"
            /\ UNCHANGED runs
    /\ UNCHANGED <<waitDuration, lastRunModTime, stat, watched, wnow, firstStat, handler>>

\* A run that records the modification time only when the command succeeds.
cmdRunOnSuccess ==
    /\ wpc = "cmd"
    /\ \E err \in BOOLEAN :
        lastRunModTime' = IF err THEN lastRunModTime ELSE stat.ModTime
    /\ wpc' = "wait"
    /\ UNCHANGED <<waitDuration, stat, watched, wnow, runs, firstStat, handler>>

\* run: cmd.Run() returns; its error is only logged, and lastRunModTime
\* becomes stat.ModTime() either way.
cmdRun ==
    /\ wpc = "cmd"
    /\ \E err \in BOOLEAN : lastRunModTime' = stat.ModTime
    /\ wpc' = "wait"
    /\ UNCHANGED <<waitDuration, stat, watched, wnow, runs, firstStat, handler>>

\* run: <-ticker.C
ticker ==
    /\ wpc = "wait"
    /\ wpc' = "stat"
    /\ UNCHANGED <<waitDuration, lastRunModTime, stat, watched, wnow, runs, firstStat, handler>>

\* The clock advances.
timePasses ==
    /\ wnow < MaxNow
    /\ wnow' = wnow + 1
    /\ UNCHANGED <<waitDuration, lastRunModTime, stat, wpc, watched, runs, firstStat, handler>>

\* Some program writes (or creates) the watched file: its modification time
\* becomes the current time.
writeFile ==
    /\ watched # [exists |-> TRUE, mtime |-> wnow]
    /\ watched' = [exists |-> TRUE, mtime |-> wnow]
    /\ UNCHANGED <<waitDuration, lastRunModTime, stat, wpc, wnow, runs, firstStat, handler>>

\* Some program removes the watched file.
removeFile ==
    /\ watched.exists
    /\ watched' = [exists |-> FALSE, mtime |-> Zero]
    /\ UNCHANGED <<waitDuration, lastRunModTime, stat, wpc, wnow, runs, firstStat, handler>>

\* The watcher starts with any -wait, the watched file there or not; the
\* profile server is not running.
InitWatch ==
    /\ \E wait \in 0..MaxWait :
       \E file \in {[exists |-> FALSE, mtime |-> Zero], [exists |-> TRUE, mtime |-> 1]} :
           StartWatch(wait, file, 1)
    /\ UploadToken = ""
    /\ disk = [f \in Paths |-> NoFile]
    /\ Profiles = <<>>
    /\ ProfileMux = {}
    /\ profilePaths = <<>>
    /\ wk = [p \in Procs |-> Idle]

NextWatch ==
    \/ osStat
    \/ diff
    \/ cmdRun
    \/ ticker
    \/ timePasses
    \/ writeFile
    \/ removeFile

SpecWatch == InitWatch /\ [][NextWatch]_vars

\* Polls keep occurring (the ticker fires every second), the clock advances
\* and every execution of the command terminates.
SpecWatchFair ==
    /\ SpecWatch
    /\ WF_vars(osStat)
    /\ WF_vars(diff)
    /\ WF_vars(cmdRun)
    /\ WF_vars(ticker)
    /\ WF_vars(timePasses)

\* =============================================================== claims

\* The ids of the Catalog.
CatalogIds == {Profiles[i].Name : i \in 1..Len(Profiles)}

\* Goroutine p takes the step.
StepOf(p) == wk'[p] # wk[p]

\* No goroutine is inside LoadProfile or a handler.
Quiet == \A p \in Procs : wk[p].pc \in Finished \cup {"listen"}

\* An id of letters, digits, '_' and '-' only, and at least one of them.
ValidId(s) ==
    /\ s # <<>>
    /\ \A i \in 1..Len(s) : s[i] \in {"a", "b", "e", "1", "_", "-"}

SortedDesc(s) == \A i, j \in 1..Len(s) : i < j => s[i].ModTime >= s[j].ModTime

\* C1. Uniqueness: in every state reached by a sequence of startup loads and
\* uploads, re-uploads of a loaded id included, no two entries of
\* Handler.Profiles have the same Name.
C1_Uniqueness ==
    \A i, j \in 1..Len(Profiles) : i # j => Profiles[i].Name # Profiles[j].Name

\* An upload of an id that is already in the Catalog has been through
\* LoadProfile (it ended in Handle's panic), and the Catalog has two entries.
C1_Witness ==
    /\ \E w \in Workers : wk[w].pc = "aborted"
    /\ Len(Profiles) >= 2

\* C2. Concurrent uploads: once every request is answered, each upload that
\* was answered 201 has its id in Handler.Profiles.
C2_NoLostUpdate ==
    Quiet =>
        \A w \in Workers : \A n \in StartupNames :
            (/\ wk[w].pc = "done"
             /\ wk[w].status = StatusCreated
             /\ wk[w].body = <<[location |-> <<"/", "profiles", "/">> \o n]>>)
            => n \in CatalogIds

\* C3. Auth gate: a step of an upload whose x-upload-token header is missing
\* or differs from Handler.UploadToken answers 401 and changes no file, no
\* Catalog entry and no route.
C3_AuthGate ==
    [][\A w \in Workers :
        (/\ StepOf(w)
         /\ wk[w].pc = "serve"
         /\ IsUpload(wk[w].req)
         /\ \/ wk[w].req.token = <<>>
            \/ wk[w].req.token # <<>> /\ wk[w].req.token[1] # UploadToken)
        => /\ wk'[w].pc = "done"
           /\ wk'[w].status = StatusUnauthorized
           /\ UNCHANGED <<disk, Profiles, ProfileMux>>]_vars

\* C4. Identifier gate: an authorised upload whose name is empty or has a
\* character outside [A-Za-z0-9_-] is answered 400 and changes nothing, and
\* every file that any step creates or writes is profiles/<id>.pprof for an
\* id of letters, digits, '_' and '-'.
C4_IdentifierGate ==
    [][/\ \A w \in Workers :
            (/\ StepOf(w)
             /\ wk[w].pc = "serve"
             /\ IsUpload(wk[w].req)
             /\ HeaderGet(wk[w].req.token) = UploadToken
             /\ ~ValidId(wk[w].req.name))
            => /\ wk'[w].pc = "done"
               /\ wk'[w].status = StatusBadRequest
               /\ UNCHANGED <<disk, Profiles, ProfileMux>>
       /\ \A f \in Paths :
            disk'[f] # disk[f] =>
                \E id \in UploadNames :
                    /\ ValidId(id)
                    /\ f = <<"profiles", "/">> \o id \o <<".", "pprof">>]_vars

\* An upload has been answered 400 and another has written its file.
C4_Witness ==
    /\ wk["w1"].pc = "done" /\ wk["w1"].status = StatusBadRequest
    /\ \E f \in Paths : disk[f].exists /\ disk[f].mtime = MaxTime

\* C5. Ordering: whenever no load is between its append and its sort, the
\* Catalog is in descending order of ModTime, and so is every listing that
\* index has rendered.
C5_Ordering ==
    /\ (\A p \in Procs : wk[p].pc # "sort") => SortedDesc(Profiles)
    /\ \A w \in Workers :
        (wk[w].pc = "done" /\ wk[w].status = StatusOK /\ Len(wk[w].body) >= 2
         /\ \A i \in 1..Len(wk[w].body) : "ModTime" \in DOMAIN wk[w].body[i])
        => SortedDesc(wk[w].body)

\* Startup has loaded a.pprof and then the more recent b-1.pprof, which the
\* sort has moved to the front, and index has listed them.
C5_Witness ==
    /\ Len(Profiles) >= 2
    /\ Profiles[1].Name = <<"b", "-", "1">>
    /\ Profiles[2].Name = <<"a">>
    /\ Profiles[1].ModTime > Profiles[2].ModTime
    /\ \E w \in Workers :
        /\ wk[w].pc = "done" /\ wk[w].status = StatusOK
        /\ Len(wk[w].body) >= 2
        /\ "ModTime" \in DOMAIN wk[w].body[1]

\* The step of w answers (or aborts) the upload request it is serving.
EndsUpload(w) ==
    /\ StepOf(w)
    /\ wk[w].pc \notin Finished
    /\ IsUpload(wk[w].req)
    /\ wk'[w].pc \in Finished

\* C6. Upload outcome: every POST /upload is answered, with 401 if the token
\* does not match, else 400 if the name is invalid, else 500 or 201; and when
\* 201 is sent, with body /profiles/<id>, the id is in the Catalog and its
\* routes are registered.
C6_UploadOutcome ==
    [][\A w \in Workers :
        EndsUpload(w) =>
            LET r == wk[w].req
                status == wk'[w].status
            IN  /\ wk'[w].pc = "done"
                /\ IF HeaderGet(r.token) # UploadToken THEN status = StatusUnauthorized
                   ELSE IF ~ValidId(r.name) THEN status = StatusBadRequest
                   ELSE status \in {StatusInternalServerError, StatusCreated}
                /\ status = StatusCreated =>
                    /\ wk'[w].body = <<[location |-> <<"/", "profiles", "/">> \o r.name]>>
                    /\ \E i \in 1..Len(Profiles') : Profiles'[i].Name = r.name
                    /\ \A h \in HandlerPaths :
                        \E e \in ProfileMux' :
                            e.pattern = <<"/", "profiles", "/">> \o r.name \o h]_vars

\* C7. Parse failure: the step of LoadProfile that finds the file of the
\* path not to be a profile returns the error to its caller (upload answers
\* 500, run goes on with its loop) with the file still on disk and the
\* Catalog and the routes as they were.
C7_ParseFailure ==
    [][\A p \in Procs :
        (/\ StepOf(p)
         /\ wk[p].pc = "parse"
         /\ disk[wk[p].path].content # "g1")
        => /\ UNCHANGED <<disk, Profiles, ProfileMux>>
           /\ disk[wk[p].path].exists
           /\ IF p = "main" THEN wk'[p].pc = "loop"
              ELSE wk'[p].pc = "done" /\ wk'[p].status = StatusInternalServerError]_vars

\* An upload of a payload that is no profile has been answered 500: its file
\* is on disk, and the id has no Catalog entry and no route.
C7_Witness ==
    /\ \E w \in Workers : wk[w].pc = "done" /\ wk[w].status = StatusInternalServerError
    /\ disk[ProfilePath(<<"a">>)].exists
    /\ disk[ProfilePath(<<"a">>)].content = "bad"
    /\ disk[ProfilePath(<<"a">>)].mtime = MaxTime
    /\ <<"a">> \notin CatalogIds
    /\ \A e \in ProfileMux : e.id # <<"a">>
    /\ CatalogIds # {}

\* C8. Re-upload policy: no load ends in a failure that is not caught: a
\* panic that leaves the handler (the request is aborted without a response)
\* or that ends the process.
C8_ReuploadPolicy ==
    \A p \in Procs : wk[p].pc \notin {"aborted", "crashed"}

\* The path is below /profiles/<id> for an id with a registered route.
UnderMounted(path) ==
    \E e \in ProfileMux : HasPrefix(path, <<"/", "profiles", "/">> \o e.id)

\* C9. Front controller fallback: a request that is not GET /, not POST
\* /upload and not below a mounted /profiles/<id> is answered 404.
C9_Fallback ==
    [][\A w \in Workers :
        (/\ StepOf(w)
         /\ wk[w].pc = "serve"
         /\ ~(wk[w].req.method = "GET" /\ wk[w].req.path = <<"/">>)
         /\ ~(wk[w].req.method = "POST" /\ wk[w].req.path = <<"/", "upload">>)
         /\ ~UnderMounted(wk[w].req.path))
        => /\ wk'[w].pc = "done"
           /\ wk'[w].status = StatusNotFound]_vars

\* C10. No torn reads: every listing that index has rendered is a Catalog as
\* completed loads leave it: in descending order of ModTime, no id twice.
C10_NoTornReads ==
    \A w \in Workers :
        (/\ wk[w].pc = "done"
         /\ wk[w].status = StatusOK
         /\ \A i \in 1..Len(wk[w].body) : "ModTime" \in DOMAIN wk[w].body[i])
        => /\ SortedDesc(wk[w].body)
           /\ \A i, j \in 1..Len(wk[w].body) :
                i # j => wk[w].body[i].Name # wk[w].body[j].Name

\* C11. Catalog/RouteTable consistency: in every state, the states inside a
\* load and of concurrent loads included, every Catalog entry has a
\* registered pattern that begins with /profiles/<its Name>.
C11_CatalogRoutes ==
    \A i \in 1..Len(Profiles) :
        \E e \in ProfileMux :
            HasPrefix(e.pattern, <<"/", "profiles", "/">> \o Profiles[i].Name)

\* Two loads are in progress, one with its routes mounted and its entry not
\* yet appended, beside a Catalog that has an entry.
C11_Witness ==
    /\ Len(Profiles) >= 1
    /\ \E w \in Workers : wk[w].pc = "append"
    /\ \E w \in Workers : wk[w].pc = "mount"

\* C12. Route uniqueness: every registered pattern is /profiles/<id><subpath>
\* of the one id that mounted it, no two registrations have the same
\* pattern, and a request served by a mounted handler is below
\* /profiles/<id>/ of the handler's own id.
C12_RouteUniqueness ==
    [][/\ \A e \in ProfileMux' :
            /\ \E h \in HandlerPaths : e.pattern = <<"/", "profiles", "/">> \o e.id \o h
            /\ \A f \in ProfileMux' : f.pattern = e.pattern => f = e
       /\ \A w \in Workers :
            (/\ StepOf(w)
             /\ wk[w].pc = "serve"
             /\ HasPrefix(wk[w].req.path, <<"/", "profiles", "/">>)
             /\ wk'[w].status = StatusOK)
            => HasPrefix(wk[w].req.path,
                         <<"/", "profiles", "/">> \o wk'[w].body[1].id \o <<"/">>)]_vars

\* A request below /profiles/a/ has been served by a handler of a while the
\* routes of b-1 are mounted too.
C12_Witness ==
    /\ wk["w1"].pc = "done"
    /\ wk["w1"].status = StatusOK
    /\ wk["w1"].body = <<[id |-> <<"a">>, pprof |-> "g1"]>>
    /\ \E e \in ProfileMux : e.id = <<"b", "-", "1">>

\* The files of the catalog directory that are well-formed profiles.
GoodFiles == {f \in Paths : disk[f].exists /\ disk[f].content = "g1"}

\* C13. Reconciliation is failure-tolerant: run never stops in its loop, and
\* when the loop has ended (no request served yet) the Catalog has exactly
\* one record for each file that is a profile and none for the others,
\* wherever the failing files are in the listing.
C13_Reconciliation ==
    /\ wk["main"].pc # "crashed"
    /\ (wk["main"].pc = "listen" /\ \A w \in Workers : wk[w].pc = "idle")
        => /\ profilePaths = <<>>
           /\ CatalogIds = {ProfileID(f) : f \in GoodFiles}
           /\ Len(Profiles) = Cardinality(GoodFiles)

\* The loop has ended over a directory whose first and last files fail to
\* load and whose middle one is loaded.
C13_Witness ==
    /\ wk["main"].pc = "listen"
    /\ \A w \in Workers : wk[w].pc = "idle"
    /\ disk[ProfilePath(<<"a">>)].content = "bad"
    /\ disk[ProfilePath(<<"e", "_", "1">>)].content = "bad"
    /\ CatalogIds = {<<"b", "-", "1">>}

\* C14. Reconciliation idempotence: the reconciliation run a second time over
\* an unchanged directory ends, and whenever a pass has ended the Catalog has
\* exactly one entry for each file that is a profile, and no duplicates.
C14_Idempotence ==
    /\ wk["main"].pc # "crashed"
    /\ (wk["main"].pc = "loop" /\ profilePaths = <<>>)
        => /\ CatalogIds = {ProfileID(f) : f \in GoodFiles}
           /\ Len(Profiles) = Cardinality(GoodFiles)

\* C15. Record stability: a record (Name, ModTime) that is in the Catalog is
\* in the Catalog after every step.
C15_RecordStability ==
    [][\A i \in 1..Len(Profiles) :
        \E j \in 1..Len(Profiles') : Profiles'[j] = Profiles[i]]_vars

\* C16. Watcher quiet period: the command is executed at a poll only if the
\* os.Stat of that poll found the file, the time from the modification time
\* it read to the time.Now() of the poll is at least waitDuration, and that
\* modification time is not lastRunModTime; no execution in the history was
\* started less than waitDuration after the modification time it was for.
C16_QuietPeriod ==
    [][/\ runs' # runs
           => /\ ~stat.err
              /\ wnow - stat.ModTime >= waitDuration
              /\ stat.ModTime # lastRunModTime
              /\ runs' = Append(runs, [ModTime |-> stat.ModTime, at |-> wnow])
       /\ \A i \in 1..Len(runs') : runs'[i].at - runs'[i].ModTime >= waitDuration]_vars

\* With the longest wait, a poll has left a freshly written file alone and the
\* command has been executed for it later.
C16_Witness ==
    /\ waitDuration = MaxWait
    /\ runs # <<>>
    /\ runs[Len(runs)].ModTime > 1

RunFor(m) == \E i \in 1..Len(runs) : runs[i].ModTime = m

\* C19. Watcher eventual run: once an os.Stat has succeeded, whenever the
\* file has a modification time m that is not the recorded one, then the
\* command is executed for m, unless the file is written or removed first
\* (for the m whose quiet period ends within the clock's range).
C19_EventualRun ==
    \A m \in 1..MaxNow :
        (/\ watched.exists
         /\ watched.mtime = m
         /\ ~IsZero(lastRunModTime)
         /\ lastRunModTime # m
         /\ m + waitDuration <= MaxNow)
        ~> (RunFor(m) \/ ~watched.exists \/ watched.mtime # m)

\* The file was written after the first os.Stat that succeeded, was left alone,
\* and the command has been executed for the new modification time.
C19_Witness ==
    /\ waitDuration >= 1
    /\ watched.exists
    /\ watched.mtime # firstStat.ModTime
    /\ RunFor(watched.mtime)

\* C20. Watcher baseline: the modification time read by the first os.Stat
\* that succeeds becomes lastRunModTime at that os.Stat, and the command is
\* never executed for it, nor executed at all before that os.Stat.
C20_Baseline ==
    /\ ~RunFor(firstStat.ModTime)
    /\ IsZero(firstStat.ModTime) => IsZero(lastRunModTime) /\ runs = <<>>
    /\ ~IsZero(firstStat.ModTime) => ~IsZero(lastRunModTime)
    /\ (~IsZero(firstStat.ModTime) /\ runs = <<>>) => lastRunModTime = firstStat.ModTime

\* The file appeared after an os.Stat had failed; a poll is now reading its
\* first modification time again, longer than waitDuration after it, and the
\* command has not been executed.
C20_Witness ==
    /\ firstStat.failedBefore
    /\ ~IsZero(firstStat.ModTime)
    /\ wpc = "diff"
    /\ stat.ModTime = firstStat.ModTime
    /\ wnow - stat.ModTime > waitDuration
    /\ waitDuration >= 1
    /\ runs = <<>>

====
